---- MODULE Spec2Model ----
(***************************************************************************)
(* Model of src/gui.py: the BLE session supervisor and notification        *)
(* reassembly of BluetoothWorker.  One asyncio event loop runs every       *)
(* coroutine and every notification callback, so each action below is the  *)
(* code between two suspension points (await) of one coroutine, or one     *)
(* whole callback.                                                         *)
(***************************************************************************)
EXTENDS Integers, Sequences, FiniteSets, TLC

VARIABLES
    is_scanning,        \* BluetoothWorker.is_scanning
    is_connected,       \* BluetoothWorker.is_connected
    client,             \* BluetoothWorker.client: "None", or the state of the BleakClient
    subscribed,         \* start_notify succeeded on the current client
    received_chunks,    \* BluetoothWorker.received_chunks
    chunks_in_progress, \* BluetoothWorker.chunks_in_progress
    tasks,              \* coroutines alive on the worker's event loop
    now,                \* time.time(), in seconds
    nfrag,              \* chunks appended by notification_handler so far
    nsent,              \* send_command calls that reached the write so far
    devCur,             \* the request the device is answering (0: none)
    lastStatus,         \* last connection_status emission, with what send_command
                        \* returned right after emitting it ("None": no return)
    lastComplete,       \* the last chunks_complete emission since the session was
                        \* found lost or a command was accepted: <<>>, or <<its list>>
    hist,               \* observation of the run, read by the properties only
    call,               \* one call of a function of gui.py: its arguments, and
                        \* its return value once it has run
    viewer              \* BatteryDataViewer: data, current_measurement_type, the
                        \* text of data_label, and the chunks_complete handled so far

\* The state of the BluetoothWorker and of its event loop.
worker == <<is_scanning, is_connected, client, subscribed, received_chunks,
            chunks_in_progress, tasks, now, nfrag, nsent, devCur, lastStatus,
            lastComplete, hist>>

\* What lives outside the worker.
gui == <<call, viewer>>

vars == <<worker, gui>>

\* ---------------------------------------------------------------- bounds
MaxFrags == 2
MaxSends == 2
MaxTime == 50
TimeStep == 20
\* time.time() when the worker starts (never 0, the "not started" mark of
\* transmission_start_time).
StartTime == 10
\* The longest enumerated message, in characters.
MaxLen == 5
\* The chunks_complete emissions the viewer handles.
MaxMessages == 2
\* The send_request calls made.
MaxRequests == 2
\* The chunks_complete emissions waiting for the GUI thread.
MaxQueued == 1

\* ------------------------------------------------------------- constants
total_timeout == 30
\* The 0.01 s between two samples of one message, in milliseconds.
SampleInterval == 10

\* Payloads a notification can carry, as sequences of characters.
Payloads == { <<"1", ",">>, <<"2", "]">> }


\* ---------------------------------------------------------------- helpers
RemoveAt(s, i) == [j \in 1..(Len(s) - 1) |-> IF j < i THEN s[j] ELSE s[j + 1]]

ReplaceAt(s, i, e) == [s EXCEPT ![i] = e]

Task(kind, pc, tst, req) == [kind |-> kind, pc |-> pc, tst |-> tst, req |-> req]

\* asyncio.create_task(self.scan_and_connect())
ScanTask == Task("scan", "scan_top", 0, 0)

\* asyncio.create_task(self.connection_monitor()): transmission_start_time = 0
MonitorTask == Task("monitor", "mon_tick", 0, 0)

Status(connected, msg) == [connected |-> connected, msg |-> msg, ret |-> "None"]

\* A status that send_command emits on its way to `return ret`.
StatusReturn(connected, msg, ret) == [connected |-> connected, msg |-> msg, ret |-> ret]

\* "]" in chunk
HasBracket(text) == \E k \in DOMAIN text : text[k] = "]"

\* The bracket test applied to the newest chunk only.
AnyClosing_LastOnly(chunks) ==
    chunks # <<>> /\ HasBracket(chunks[Len(chunks)].text)

\* any("]" in chunk for chunk in self.received_chunks)
AnyClosing(chunks) == \E k \in DOMAIN chunks : HasBracket(chunks[k].text)

\* self.client.is_connected
ClientIsConnected == client = "up"

\* No function is being called.
NoCall == [fn |-> "none", arg |-> <<>>, done |-> FALSE, result |-> <<>>]

\* BluetoothWorker.__init__ and run(): one scan_and_connect task on a new loop.
WorkerInit ==
    /\ is_scanning = TRUE
    /\ is_connected = FALSE
    /\ client = "None"
    /\ subscribed = FALSE
    /\ received_chunks = <<>>
    /\ chunks_in_progress = FALSE
    /\ tasks = <<ScanTask>>
    /\ now = StartTime
    /\ nfrag = 0
    /\ nsent = 0
    /\ devCur = 0
    /\ lastStatus = Status(FALSE, "none")
    /\ lastComplete = <<>>
    /\ hist = [firstFrag |-> 0, fragsSinceSend |-> 0, emitsSinceSend |-> 0,
               emitted |-> {}, twice |-> {}, discarded |-> {}, superseded |-> {},
               announced |-> {}, dataEvents |-> 0,
               open |-> FALSE, trail |-> <<>>, staleHead |-> FALSE]

\* BatteryDataViewer.__init__ and initUI.
ViewerNew ==
    [data |-> [k \in {"time"} |-> <<>>],
     current_measurement_type |-> "Voltage",
     data_label |-> "No data loaded.",
     request_enabled |-> FALSE,
     queue |-> <<>>,
     requests |-> 0,
     calls |-> 0]

Init == WorkerInit /\ call = NoCall /\ viewer = ViewerNew

\* ------------------------------------------------- scan_and_connect
\* Top of `while self.is_scanning:` up to `await BleakScanner.discover()`.
\* Runs when the task starts and when one of its sleeps returns.
ScanResume(i) ==
    /\ i \in DOMAIN tasks /\ tasks[i].pc \in {"scan_top", "scan_sleep", "scan_err_sleep"}
    /\ IF is_scanning
       THEN /\ lastStatus' = Status(FALSE, "Scanning for BLE device...")
            /\ tasks' = ReplaceAt(tasks, i, Task("scan", "scan_discover", 0, 0))
            /\ hist' = [hist EXCEPT !.trail = <<"scanning">>]
       ELSE /\ tasks' = RemoveAt(tasks, i)
            /\ UNCHANGED <<lastStatus, hist>>
    /\ UNCHANGED gui
    /\ UNCHANGED <<is_scanning, is_connected, client, subscribed, received_chunks,
                   chunks_in_progress, now, nfrag, nsent, devCur, lastComplete>>

\* discover() raised: the except branch, then `await asyncio.sleep(5)`.
DiscoverError(i) ==
    /\ i \in DOMAIN tasks /\ tasks[i].pc = "scan_discover"
    /\ lastStatus' = Status(FALSE, "Scan error")
    /\ tasks' = ReplaceAt(tasks, i, Task("scan", "scan_err_sleep", 0, 0))
    /\ UNCHANGED gui
    /\ UNCHANGED <<is_scanning, is_connected, client, subscribed, received_chunks,
                   chunks_in_progress, now, nfrag, nsent, devCur, lastComplete, hist>>

\* discover() returned no device whose name matches: `await asyncio.sleep(2)`.
DiscoverNoMatch(i) ==
    /\ i \in DOMAIN tasks /\ tasks[i].pc = "scan_discover"
    /\ tasks' = ReplaceAt(tasks, i, Task("scan", "scan_sleep", 0, 0))
    /\ UNCHANGED gui
    /\ UNCHANGED <<is_scanning, is_connected, client, subscribed, received_chunks,
                   chunks_in_progress, now, nfrag, nsent, devCur, lastStatus,
                   lastComplete, hist>>

\* Lines 65 and 82 in the other order.
MatchEmits_ConnectingFirst == <<"connecting", "device_found">>

\* What a match emits: device_found (line 65), then, in connect_to_device,
\* the status "Connecting" (line 82).
MatchEmits == <<"device_found", "connecting">>

\* discover() returned the device: device_found, is_scanning = False, and
\* connect_to_device up to `await self.client.connect()` on a new BleakClient.
DiscoverMatch(i) ==
    /\ i \in DOMAIN tasks /\ tasks[i].pc = "scan_discover"
    /\ is_scanning' = FALSE
    /\ lastStatus' = Status(FALSE, "Connecting")
    /\ client' = "down"
    /\ subscribed' = FALSE
    /\ tasks' = ReplaceAt(tasks, i, Task("scan", "conn_connect", 0, 0))
    /\ hist' = [hist EXCEPT !.trail = @ \o MatchEmits]
    /\ UNCHANGED gui
    /\ UNCHANGED <<is_connected, received_chunks, chunks_in_progress, now, nfrag,
                   nsent, devCur, lastComplete>>

\* ------------------------------------------------- connect_to_device
\* Lines 98-100, then the return of connect_to_device and of scan_and_connect:
\* the task is replaced by a new scan task.
AfterConnectFailed_NoRescan(ts, i) == RemoveAt(ts, i)

AfterConnectFailed(ts, i) == ReplaceAt(ts, i, ScanTask)

\* connect() returned with the client connected: lines 88-93.
ConnectOk(i) ==
    /\ i \in DOMAIN tasks /\ tasks[i].pc = "conn_connect"
    /\ client' = "up"
    /\ is_connected' = TRUE
    /\ lastStatus' = Status(TRUE, "Connected")
    /\ tasks' = ReplaceAt(tasks, i, Task("scan", "conn_notify", 0, 0))
    /\ hist' = [hist EXCEPT !.open = TRUE, !.trail = Append(@, "connected")]
    /\ UNCHANGED gui
    /\ UNCHANGED <<is_scanning, subscribed, received_chunks, chunks_in_progress,
                   now, nfrag, nsent, devCur, lastComplete>>

\* connect() returned and client.is_connected is False: lines 97-100.
ConnectNotConnected(i) ==
    /\ i \in DOMAIN tasks /\ tasks[i].pc = "conn_connect"
    /\ lastStatus' = Status(FALSE, "Connection failed")
    /\ is_scanning' = TRUE
    /\ tasks' = AfterConnectFailed(tasks, i)
    /\ hist' = [hist EXCEPT !.trail = <<>>]
    /\ UNCHANGED gui
    /\ UNCHANGED <<is_connected, client, subscribed, received_chunks,
                   chunks_in_progress, now, nfrag, nsent, devCur, lastComplete>>

\* connect() raised: lines 102-105, up to `await asyncio.sleep(5)`.
ConnectError(i) ==
    /\ i \in DOMAIN tasks /\ tasks[i].pc = "conn_connect"
    /\ lastStatus' = Status(FALSE, "Connection error")
    /\ is_scanning' = TRUE
    /\ tasks' = ReplaceAt(tasks, i, Task("scan", "conn_err_sleep", 0, 0))
    /\ hist' = [hist EXCEPT !.trail = <<>>]
    /\ UNCHANGED gui
    /\ UNCHANGED <<is_connected, client, subscribed, received_chunks,
                   chunks_in_progress, now, nfrag, nsent, devCur, lastComplete>>

\* start_notify() returned: the monitor task is created and this task returns.
NotifyOk(i) ==
    /\ i \in DOMAIN tasks /\ tasks[i].pc = "conn_notify"
    /\ subscribed' = (client = "up")
    /\ tasks' = ReplaceAt(tasks, i, MonitorTask)
    /\ hist' = [hist EXCEPT !.trail = Append(@, "subscribed")]
    /\ UNCHANGED gui
    /\ UNCHANGED <<is_scanning, is_connected, client, received_chunks,
                   chunks_in_progress, now, nfrag, nsent, devCur, lastStatus,
                   lastComplete>>

\* start_notify() raised: lines 102-105; is_connected stays as line 89 set it.
NotifyError(i) ==
    /\ i \in DOMAIN tasks /\ tasks[i].pc = "conn_notify"
    /\ lastStatus' = Status(FALSE, "Connection error")
    /\ is_scanning' = TRUE
    /\ tasks' = ReplaceAt(tasks, i, Task("scan", "conn_err_sleep", 0, 0))
    /\ hist' = [hist EXCEPT !.trail = <<>>]
    /\ UNCHANGED gui
    /\ UNCHANGED <<is_connected, client, subscribed, received_chunks,
                   chunks_in_progress, now, nfrag, nsent, devCur, lastComplete>>

\* The sleep of line 105 returned: line 106, then both coroutines return.
ConnectErrorRetry(i) ==
    /\ i \in DOMAIN tasks /\ tasks[i].pc = "conn_err_sleep"
    /\ tasks' = ReplaceAt(tasks, i, ScanTask)
    /\ UNCHANGED gui
    /\ UNCHANGED <<is_scanning, is_connected, client, subscribed, received_chunks,
                   chunks_in_progress, now, nfrag, nsent, devCur, lastStatus,
                   lastComplete, hist>>

\* ------------------------------------------------- notification_handler
Ids(chunks) == {chunks[k].id : k \in DOMAIN chunks}

Reqs(chunks) == {chunks[k].req : k \in DOMAIN chunks}

\* Line 116 with the chunk put in front of the buffer.
AppendChunk_Front(chunks, chunk) == <<chunk>> \o chunks

\* Line 116: self.received_chunks.append(chunk)
AppendChunk(chunks, chunk) == Append(chunks, chunk)

\* Line 113 made to depend on the flag: no event while a message is in progress.
EmitsDataReceived_IdleOnly(flag) == ~flag

\* Line 113: self.data_received.emit(chunk) is reached whenever the payload
\* decoded, whatever chunks_in_progress is.
EmitsDataReceived(flag) == TRUE

\* The transport delivers one notification of the device's answer to the
\* request it holds; the whole callback runs on the loop.  An undecodable
\* payload raises in data.decode and the handler only prints.
NotificationHandler(text, decodable) ==
    /\ client = "up"
    /\ subscribed
    /\ devCur # 0
    /\ nfrag < MaxFrags
    /\ IF decodable
       THEN /\ nfrag' = nfrag + 1
            /\ received_chunks' = AppendChunk(received_chunks,
                    [id |-> nfrag + 1, req |-> devCur, text |-> text])
            /\ chunks_in_progress' = TRUE
            /\ hist' = [hist EXCEPT
                    !.firstFrag = IF received_chunks = <<>> THEN now ELSE @,
                    !.fragsSinceSend = 1,
                    !.announced = IF EmitsDataReceived(chunks_in_progress)
                                  THEN @ \cup {nfrag + 1} ELSE @,
                    !.dataEvents = IF EmitsDataReceived(chunks_in_progress)
                                   THEN @ + 1 ELSE @]
       ELSE UNCHANGED <<nfrag, received_chunks, chunks_in_progress, hist>>
    /\ UNCHANGED gui
    /\ UNCHANGED <<is_scanning, is_connected, client, subscribed, tasks, now,
                   nsent, devCur, lastStatus, lastComplete>>

\* ------------------------------------------------- connection_monitor
\* asyncio.create_task(self.scan_and_connect()) of line 136, then return.
AfterDisconnect_DirectConnect(ts, i) ==
    ReplaceAt(ts, i, Task("scan", "conn_connect", 0, 0))

AfterDisconnect(ts, i) == ReplaceAt(ts, i, ScanTask)

\* `self.chunks_in_progress and self.received_chunks` of lines 142 and 147.
Buffered_FlagOnly(flag, chunks) == flag

Buffered(flag, chunks) == flag /\ chunks # <<>>

\* Line 152: transmission_start_time > 0 and current_time - start > total_timeout
TimedOut(start, current_time) ==
    start > 0 /\ current_time - start > total_timeout

\* Lines 151-152, the completion condition.
IsComplete(chunks, start, current_time) ==
    AnyClosing(chunks) \/ TimedOut(start, current_time)

\* Line 159: the buffer after the flush.
Flushed_Kept(chunks) == chunks

Flushed(chunks) == <<>>

\* One pass of `while True:` with the session connected, lines 139-167.
MonitorCheck(i) ==
    LET start0 == tasks[i].tst
        begins == Buffered(chunks_in_progress, received_chunks) /\ start0 = 0
        start1 == IF begins THEN now ELSE start0
        done == /\ Buffered(chunks_in_progress, received_chunks)
                /\ IsComplete(received_chunks, start1, now)
    IN  /\ i \in DOMAIN tasks /\ tasks[i].pc = "mon_tick"
        /\ is_connected /\ ClientIsConnected
        /\ IF done
           THEN /\ lastStatus' = Status(TRUE, "Data transmission complete")
                /\ chunks_in_progress' = FALSE
                /\ lastComplete' = <<received_chunks>>
                /\ received_chunks' = Flushed(received_chunks)
                /\ tasks' = ReplaceAt(tasks, i, Task("monitor", "mon_tick", 0, 0))
                /\ hist' = [hist EXCEPT
                        !.emitsSinceSend = 1,
                        !.superseded = {},
                        !.emitted = @ \cup Ids(received_chunks),
                        !.twice = @ \cup (hist.emitted \cap Ids(received_chunks)),
                        !.firstFrag = IF Flushed(received_chunks) = <<>> THEN 0 ELSE @,
                        !.staleHead = @ /\ Flushed(received_chunks) # <<>>]
           ELSE /\ lastStatus' = IF begins
                                 THEN Status(TRUE, "Data transmission started")
                                 ELSE lastStatus
                /\ tasks' = ReplaceAt(tasks, i, Task("monitor", "mon_tick", start1, 0))
                /\ UNCHANGED <<chunks_in_progress, lastComplete, received_chunks, hist>>
        /\ UNCHANGED gui
        /\ UNCHANGED <<is_scanning, is_connected, client, subscribed, now, nfrag,
                       nsent, devCur>>

\* Lines 130-134: loss detected, up to `await self.client.disconnect()`.
MonitorLoss(i) ==
    /\ i \in DOMAIN tasks /\ tasks[i].pc = "mon_tick"
    /\ ~is_connected \/ ~ClientIsConnected
    /\ is_connected' = FALSE
    /\ lastStatus' = Status(FALSE, "Connection lost, reconnecting...")
    /\ is_scanning' = TRUE
    /\ tasks' = ReplaceAt(tasks, i, Task("monitor", "mon_disconnect", tasks[i].tst, 0))
    /\ hist' = [hist EXCEPT !.staleHead = received_chunks # <<>>]
    /\ UNCHANGED gui
    /\ lastComplete' = <<>>
    /\ UNCHANGED <<client, subscribed, received_chunks, chunks_in_progress, now,
                   nfrag, nsent, devCur>>

\* disconnect() returned: lines 135-137.
DisconnectOk(i) ==
    /\ i \in DOMAIN tasks /\ tasks[i].pc = "mon_disconnect"
    /\ client' = "None"
    /\ subscribed' = FALSE
    /\ tasks' = AfterDisconnect(tasks, i)
    /\ hist' = [hist EXCEPT !.open = FALSE, !.trail = <<>>]
    /\ UNCHANGED gui
    /\ UNCHANGED <<is_scanning, is_connected, received_chunks, chunks_in_progress,
                   now, nfrag, nsent, devCur, lastStatus, lastComplete>>

\* disconnect() raised: nothing in connection_monitor catches it, the task ends.
DisconnectError(i) ==
    /\ i \in DOMAIN tasks /\ tasks[i].pc = "mon_disconnect"
    /\ tasks' = RemoveAt(tasks, i)
    /\ UNCHANGED gui
    /\ UNCHANGED <<is_scanning, is_connected, client, subscribed, received_chunks,
                   chunks_in_progress, now, nfrag, nsent, devCur, lastStatus,
                   lastComplete, hist>>

\* ------------------------------------------------- send_command
\* Line 171: the guard of send_command.
MaySend_Always(connected) == TRUE

MaySend(connected) == connected

\* Line 179: self.received_chunks = []
ResetChunks_Kept(chunks) == chunks

ResetChunks(chunks) == <<>>

\* The coroutine up to its return (not connected) or up to the await of the write.
SendCommand ==
    /\ nsent < MaxSends
    /\ IF ~MaySend(is_connected)
       THEN /\ lastStatus' = StatusReturn(FALSE, "Cannot send command: Not connected",
                                           "False")
            /\ UNCHANGED <<received_chunks, chunks_in_progress, tasks, nsent, hist,
                           lastComplete>>
       ELSE /\ nsent' = nsent + 1
            /\ lastComplete' = <<>>
            /\ received_chunks' = ResetChunks(received_chunks)
            /\ chunks_in_progress' = TRUE
            /\ tasks' = Append(tasks, Task("send", "send_write", 0, nsent + 1))
            /\ hist' = [hist EXCEPT
                    !.fragsSinceSend = 0,
                    !.emitsSinceSend = 0,
                    !.discarded = @ \cup (Ids(received_chunks)
                                              \ Ids(ResetChunks(received_chunks))),
                    !.superseded = @ \cup (Reqs(received_chunks) \ {0}),
                    !.firstFrag = IF ResetChunks(received_chunks) = <<>> THEN 0 ELSE @,
                    !.staleHead = @ /\ ResetChunks(received_chunks) # <<>>]
            /\ UNCHANGED lastStatus
    /\ UNCHANGED gui
    /\ UNCHANGED <<is_scanning, is_connected, client, subscribed, now, nfrag, devCur>>

\* write_gatt_char returned: lines 184-185.  The device now answers this request.
WriteOk(i) ==
    /\ i \in DOMAIN tasks /\ tasks[i].pc = "send_write"
    /\ client = "up"
    /\ lastStatus' = StatusReturn(TRUE, "Sent command", "True")
    /\ devCur' = tasks[i].req
    /\ tasks' = RemoveAt(tasks, i)
    /\ UNCHANGED gui
    /\ UNCHANGED <<is_scanning, is_connected, client, subscribed, received_chunks,
                   chunks_in_progress, now, nfrag, nsent, lastComplete, hist>>

\* write_gatt_char raised: lines 187-189.
WriteError(i) ==
    /\ i \in DOMAIN tasks /\ tasks[i].pc = "send_write"
    /\ lastStatus' = StatusReturn(TRUE, "Error sending command", "False")
    /\ tasks' = RemoveAt(tasks, i)
    /\ UNCHANGED gui
    /\ UNCHANGED <<is_scanning, is_connected, client, subscribed, received_chunks,
                   chunks_in_progress, now, nfrag, nsent, devCur, lastComplete, hist>>

\* ------------------------------------------------- environment
\* The transport drops: client.is_connected turns False, notifications stop.
LinkDrop ==
    /\ client = "up"
    /\ client' = "down"
    /\ subscribed' = FALSE
    /\ UNCHANGED gui
    /\ UNCHANGED <<is_scanning, is_connected, received_chunks, chunks_in_progress,
                   tasks, now, nfrag, nsent, devCur, lastStatus, lastComplete, hist>>

\* time.time() moves on.
Advance ==
    /\ now + TimeStep <= MaxTime
    /\ now' = now + TimeStep
    /\ UNCHANGED gui
    /\ UNCHANGED <<is_scanning, is_connected, client, subscribed, received_chunks,
                   chunks_in_progress, tasks, nfrag, nsent, devCur, lastStatus,
                   lastComplete, hist>>

\* ------------------------------------------------- text
\* A str is a sequence of one-character strings.
\* What \s of re and str.strip() take as white space, among the characters used.
Whitespace == {" ", "\t", "\n"}

Digits == <<"0", "1", "2", "3", "4", "5", "6", "7", "8", "9">>

IsDigit(c) == \E d \in DOMAIN Digits : Digits[d] = c

DigitVal(c) == (CHOOSE d \in DOMAIN Digits : Digits[d] = c) - 1

\* The longest suffix of s that does not start with a character of cls.
RECURSIVE DropWhile(_, _)
DropWhile(s, cls) ==
    IF s # <<>> /\ s[1] \in cls THEN DropWhile(Tail(s), cls) ELSE s

Reverse(s) == [k \in DOMAIN s |-> s[Len(s) + 1 - k]]

\* str.strip(chars), and str.strip() with cls the white space
StripChars(s, cls) == Reverse(DropWhile(Reverse(DropWhile(s, cls)), cls))

\* re.sub(cls+, rep, s): every maximal run of characters of cls becomes rep.
RECURSIVE SubRuns(_, _, _)
SubRuns(s, cls, rep) ==
    IF s = <<>> THEN <<>>
    ELSE IF s[1] \in cls
         THEN rep \o SubRuns(DropWhile(s, cls), cls, rep)
         ELSE <<s[1]>> \o SubRuns(Tail(s), cls, rep)

\* re.sub(r'\s*,\s*', ',', s): a comma with the white space on both sides of it
\* becomes a comma; white space that no comma follows stays.
RECURSIVE SubAroundComma(_)
SubAroundComma(s) ==
    IF s = <<>> THEN <<>>
    ELSE LET r == DropWhile(s, Whitespace)
         IN  IF r # <<>> /\ r[1] = ","
             THEN <<",">> \o SubAroundComma(DropWhile(Tail(r), Whitespace))
             ELSE <<s[1]>> \o SubAroundComma(Tail(s))

\* str.split(sep) for a one-character sep: the parts, empty ones included.
RECURSIVE Split(_, _)
Split(s, sep) ==
    IF \A k \in DOMAIN s : s[k] # sep THEN <<s>>
    ELSE LET k == CHOOSE j \in DOMAIN s :
                      s[j] = sep /\ \A h \in 1..(j - 1) : s[h] # sep
         IN  <<SubSeq(s, 1, k - 1)>> \o Split(SubSeq(s, k + 1, Len(s)), sep)

\* ------------------------------------------------- float
\* float(part) succeeds.  The parts here are made of signs, digits, dots,
\* brackets and the letters o, p, s, x; the other forms float() takes
\* (exponent, underscore, inf, nan) need characters outside that set.
IsFloat(part) ==
    LET body == IF part # <<>> /\ part[1] \in {"+", "-"} THEN Tail(part) ELSE part
    IN  /\ \A k \in DOMAIN body : IsDigit(body[k]) \/ body[k] = "."
        /\ Cardinality({k \in DOMAIN body : body[k] = "."}) <= 1
        /\ \E k \in DOMAIN body : IsDigit(body[k])

RECURSIVE DigitsValue(_)
DigitsValue(ds) ==
    IF ds = <<>> THEN 0
    ELSE 10 * DigitsValue(SubSeq(ds, 1, Len(ds) - 1)) + DigitVal(ds[Len(ds)])

\* The number m / 10^e with no trailing zero kept in the fraction.
RECURSIVE Normal(_, _)
Normal(m, e) ==
    IF e > 0 /\ m % 10 = 0 THEN Normal(m \div 10, e - 1) ELSE [m |-> m, e |-> e]

\* The value float(part) returns, as m / 10^e: equal numbers written
\* differently ("1", "1.0", "+1.") give one value.
FloatOf(part) ==
    LET neg == part[1] = "-"
        body == IF part[1] \in {"+", "-"} THEN Tail(part) ELSE part
        dot == {k \in DOMAIN body : body[k] = "."}
        frac == IF dot = {} THEN 0 ELSE Len(body) - (CHOOSE k \in dot : TRUE)
        n == Normal(DigitsValue(SelectSeq(body, IsDigit)), frac)
    IN  [m |-> IF neg THEN 0 - n.m ELSE n.m, e |-> n.e]

\* ------------------------------------------------- clean_data_string
\* Lines 312-316: strip(), then one leading "[" and one trailing "]" removed.
Unbracketed(data_string) ==
    LET s1 == StripChars(data_string, Whitespace)
        s2 == IF s1 # <<>> /\ s1[1] = "[" THEN Tail(s1) ELSE s1
    IN  IF s2 # <<>> /\ s2[Len(s2)] = "]" THEN SubSeq(s2, 1, Len(s2) - 1) ELSE s2

\* Lines 319-328: the four substitutions, in the order of the code.
Standardized(s) ==
    SubRuns(SubAroundComma(SubRuns(SubRuns(s, Whitespace, <<" ">>), {","}, <<",">>)),
            Whitespace, <<",">>)

CleanDataString(data_string) ==
    StripChars(Standardized(Unbracketed(data_string)), {","})

\* ------------------------------------------------- parse_numeric_values
\* Lines 350-351 made to give up the values converted so far.
AfterBadPart_Reset(values) == <<>>

\* Lines 350-351: float() raised ValueError, a warning is printed.
AfterBadPart(values) == values

\* Lines 345-351: the loop over the parts, values being the list built so far.
RECURSIVE ConvertParts(_, _)
ConvertParts(parts, values) ==
    IF parts = <<>> THEN values
    ELSE LET part == StripChars(parts[1], Whitespace)
         IN  ConvertParts(Tail(parts),
                 IF part = <<>> THEN values
                 ELSE IF IsFloat(part) THEN Append(values, FloatOf(part))
                 ELSE AfterBadPart(values))

ParseNumericValues(cleaned_data) ==
    IF cleaned_data = <<>> THEN <<>>
    ELSE ConvertParts(Split(cleaned_data, ","), <<>>)

\* The decode pipeline of on_data_complete, lines 250-253 and 271-274.
Decode(full_data) == ParseNumericValues(CleanDataString(full_data))

\* ------------------------------------------------- calls of pure functions
\* The characters the enumerated messages are made of.
Alphabet == {"1", ".", "x", ",", " ", "[", "]", "-"}

\* Every message of at most MaxLen characters.
Texts == UNION {[1..n -> Alphabet] : n \in 0..MaxLen}

\* "[1.0, oops, 2.0]"
ExampleMixed ==
    <<"[", "1", ".", "0", ",", " ", "o", "o", "p", "s", ",", " ", "2", ".", "0", "]">>

\* "[0.50,,  3 ,x]"
ExampleSpaced ==
    <<"[", "0", ".", "5", "0", ",", ",", " ", " ", "3", " ", ",", "x", "]">>

DecodeCalls ==
    {[fn |-> "decode", arg |-> t, done |-> FALSE, result |-> <<>>] :
        t \in Texts \cup {ExampleMixed, ExampleSpaced}}

\* clean_data_string and parse_numeric_values run on the joined chunks.
ApplyDecode ==
    /\ call.fn = "decode" /\ ~call.done
    /\ call' = [call EXCEPT !.done = TRUE, !.result = Decode(call.arg)]
    /\ UNCHANGED <<worker, viewer>>

\* str(n) of a natural number, as an f-string formats it.
RECURSIVE IntToStr(_)
IntToStr(n) ==
    IF n < 10 THEN <<Digits[n + 1]>>
    ELSE IntToStr(n \div 10) \o <<Digits[(n % 10) + 1]>>

\* Line 176 with a "#" put in front of the fields.
EncodeCommand_Marked(battery_num, measurement_type, measurement_count) ==
    <<"#">> \o IntToStr(battery_num) \o <<";">> \o measurement_type \o <<";">>
            \o IntToStr(measurement_count)

\* Line 176: f"{battery_num};{measurement_type};{measurement_count}"
EncodeCommand(battery_num, measurement_type, measurement_count) ==
    IntToStr(battery_num) \o <<";">> \o measurement_type \o <<";">>
        \o IntToStr(measurement_count)

\* The range of the battery_number spin box (line 404).
Batteries == 1..2

\* The items of the measurement_type combo box (line 410).
MeasurementTypes ==
    { <<"V", "o", "l", "t", "a", "g", "e">>, <<"P", "o", "w", "e", "r">>,
      <<"C", "u", "r", "r", "e", "n", "t">>, <<"L", "i", "f", "e">> }

\* Values of the measurement_count spin box (line 415), of one to three digits.
Counts == {1, 9, 10, 100, 109, 300}

EncodeCalls ==
    {[fn |-> "encode", arg |-> <<b, t, c>>, done |-> FALSE, result |-> <<>>] :
        b \in Batteries, t \in MeasurementTypes, c \in Counts}

\* send_command builds the command it writes.
ApplyEncode ==
    /\ call.fn = "encode" /\ ~call.done
    /\ call' = [call EXCEPT
            !.done = TRUE,
            !.result = EncodeCommand(call.arg[1], call.arg[2], call.arg[3])]
    /\ UNCHANGED <<worker, viewer>>

PureInit ==
    WorkerInit /\ call \in DecodeCalls \cup EncodeCalls /\ viewer = ViewerNew

PureNext ==
    \/ ApplyDecode
    \/ ApplyEncode

PureSpec == PureInit /\ [][PureNext]_vars

\* ------------------------------------------------- on_data_complete
\* ''.join(chunks)
RECURSIVE Join(_)
Join(chunks) == IF chunks = <<>> THEN <<>> ELSE chunks[1] \o Join(Tail(chunks))

\* str.lower() of the items of the measurement_type combo box (line 410).
Lower(measurement_type) ==
    CASE measurement_type = "Voltage" -> "voltage"
      [] measurement_type = "Power" -> "power"
      [] measurement_type = "Current" -> "current"
      [] measurement_type = "Life" -> "life"

\* Line 245: the test that sends the message to the list branch.
InListFormat(full_data) ==
    /\ StripChars(full_data, Whitespace) # <<>>
    /\ \E k \in DOMAIN full_data : full_data[k] \in {"[", "]"}

\* Lines 261 and 294 with the index left out.
CalculatedTime_Base(base_time, i) == base_time

\* Lines 261 and 294: base_time + i * 0.01, in milliseconds.
CalculatedTime(base_time, i) == base_time + i * SampleInterval

\* Lines 256-258: a key seen for the first time gets an empty list, and the
\* list of times is emptied.
ListKeyReady(data, key) ==
    IF key \in DOMAIN data THEN data
    ELSE [k \in DOMAIN data \cup {key} |->
              IF k \in {key, "time"} THEN <<>> ELSE data[k]]

\* Lines 285-290: a key seen for the first time gets an empty list.
BareKeyReady(data, key) ==
    IF key \in DOMAIN data THEN data
    ELSE [k \in DOMAIN data \cup {key} |-> IF k = key THEN <<>> ELSE data[k]]

\* Lines 260-263 and 293-296: one time and one value appended per value.
Recorded(data, key, values, base_time) ==
    [data EXCEPT
        !["time"] = @ \o [i \in DOMAIN values |-> CalculatedTime(base_time, i - 1)],
        ![key] = @ \o values]

\* update_checkboxes checks a box for every key but "time"; show_recent then
\* sets the text of data_label (lines 659-694).
ShowRecent(data) ==
    IF DOMAIN data \ {"time"} = {} THEN "No parameter selected."
    ELSE IF data["time"] = <<>> THEN "No data available to display."
    ELSE "Latest Battery Data"

\* The lists of chunks a chunks_complete hands over.
Messages ==
    { <<>>,
      << <<"[", "1", ",">>, <<"2", "]">> >>,
      << <<"[", "x", "]">> >>,
      << <<"3">> >>,
      << <<"x">> >>,
      << <<" ">> >> }

\* The slot on_connection_status (lines 223-227): the request button is
\* enabled by a status with connected = True and disabled by one with False.
OnConnectionStatus(connected) ==
    /\ viewer' = [viewer EXCEPT !.request_enabled = connected]
    /\ UNCHANGED <<worker, call>>

\* The measurement types a request is made for.
RequestKinds == {"Voltage", "Power"}

\* A click on the request button: send_request (lines 355-375) saves the
\* settings, hands send_command to the worker's loop and sets data_label.
SendRequest(measurement_type) ==
    /\ viewer.request_enabled
    /\ viewer.requests < MaxRequests
    /\ viewer' = [viewer EXCEPT
            !.requests = @ + 1,
            !.current_measurement_type = measurement_type,
            !.data_label = "Sending request"]
    /\ UNCHANGED <<worker, call>>

\* The worker emits chunks_complete (line 165) from its own thread: the call
\* of the slot is queued for the GUI thread.  The device sends chunks in
\* answer to a request only.  The entry keeps, for the properties, the
\* measurement type of the last request made so far.
ChunksCompleteEmitted(chunks) ==
    /\ viewer.requests > 0
    /\ Len(viewer.queue) < MaxQueued
    /\ viewer.calls + Len(viewer.queue) < MaxMessages
    /\ viewer' = [viewer EXCEPT
            !.queue = Append(@, [chunks |-> chunks,
                                 kind |-> viewer.current_measurement_type])]
    /\ UNCHANGED <<worker, call>>

\* The slot on_data_complete, run on the GUI thread with the emitted list.
OnDataComplete(chunks) ==
    LET full_data == Join(chunks)
        values == Decode(full_data)
        key == Lower(viewer.current_measurement_type)
        base_time == now * 1000
        taken == [viewer EXCEPT !.calls = @ + 1, !.queue = Tail(@)]
    IN  /\ viewer.queue # <<>>
        /\ viewer.queue[1].chunks = chunks
        /\ viewer' =
              IF chunks = <<>>
              THEN [taken EXCEPT !.data_label = "No data received"]
              ELSE IF InListFormat(full_data)
              THEN LET data == Recorded(ListKeyReady(viewer.data, key), key,
                                        values, base_time)
                   IN  [taken EXCEPT !.data = data, !.data_label = ShowRecent(data)]
              ELSE IF values # <<>>
              THEN LET data == Recorded(BareKeyReady(viewer.data, key), key,
                                        values, base_time)
                   IN  [taken EXCEPT !.data = data, !.data_label = ShowRecent(data)]
              ELSE [taken EXCEPT
                       !.data_label =
                           "No valid numeric values found in the received data"]
        /\ UNCHANGED <<worker, call>>

ViewerNext ==
    \/ \E connected \in BOOLEAN : OnConnectionStatus(connected)
    \/ \E measurement_type \in RequestKinds : SendRequest(measurement_type)
    \/ \E chunks \in Messages : ChunksCompleteEmitted(chunks)
    \/ \E chunks \in Messages : OnDataComplete(chunks)
    \/ Advance

ViewerSpec == Init /\ [][ViewerNext]_vars

\* ------------------------------------------------- specification
\* Places in the list of coroutines: one supervisor task and the writes in flight.
TaskSlots == 1..(MaxSends + 2)

SupervisorStep(i) ==
    \/ ScanResume(i)
    \/ DiscoverError(i)
    \/ DiscoverNoMatch(i)
    \/ DiscoverMatch(i)
    \/ ConnectOk(i)
    \/ ConnectNotConnected(i)
    \/ ConnectError(i)
    \/ NotifyOk(i)
    \/ NotifyError(i)
    \/ ConnectErrorRetry(i)
    \/ MonitorCheck(i)
    \/ MonitorLoss(i)
    \/ DisconnectOk(i)
    \/ DisconnectError(i)

\* A created task gets its first turn, and asyncio.sleep returns.
Resumes == \E i \in TaskSlots : ScanResume(i) \/ ConnectErrorRetry(i)

Next ==
    \/ \E i \in TaskSlots : SupervisorStep(i)
    \/ \E text \in Payloads, decodable \in BOOLEAN : NotificationHandler(text, decodable)
    \/ SendCommand
    \/ \E i \in TaskSlots : WriteOk(i)
    \/ \E i \in TaskSlots : WriteError(i)
    \/ LinkDrop
    \/ Advance

Spec == Init /\ [][Next]_vars

\* The event loop keeps running: a task it was handed is started, and a sleep
\* returns after its delay.
FairSpec == Spec /\ WF_vars(Resumes)

\* ------------------------------------------------- observations
\* A step emits chunks_complete: line 155 is the only place that clears the flag.
Completes == chunks_in_progress /\ ~chunks_in_progress'

\* Some buffered chunk holds the closing bracket.
BufferClosed == \E k \in DOMAIN received_chunks :
                    \E c \in DOMAIN received_chunks[k].text :
                        received_chunks[k].text[c] = "]"

SupervisorTasks == {i \in DOMAIN tasks : tasks[i].kind \in {"scan", "monitor"}}

PcAt(pcs) == \E i \in DOMAIN tasks : tasks[i].pc \in pcs

\* ------------------------------------------------- C1
\* C1: every pass of the monitor loop that finds the session connected and a
\* chunk with "]" in the buffer emits chunks_complete in that same pass, with
\* exactly the chunks buffered at that moment, and leaves the buffer empty and
\* the in-progress flag cleared, so the message is emitted once and nothing
\* that arrives later is part of it.
C1_ClosedBufferCompletesAtTick ==
    [][\A i \in TaskSlots :
          (MonitorCheck(i) /\ BufferClosed) =>
              /\ lastComplete' = <<received_chunks>>
              /\ received_chunks' = <<>>
              /\ ~chunks_in_progress']_vars

\* A message of two chunks, the closing one not the last to arrive, was emitted whole.
C1_Witness ==
    /\ lastComplete # <<>>
    /\ Len(lastComplete[1]) = 2
    /\ \E c \in DOMAIN lastComplete[1][1].text : lastComplete[1][1].text[c] = "]"
    /\ received_chunks = <<>>

\* ------------------------------------------------- C2
\* C2: a completion forced with no "]" in the buffer happens only when more
\* than total_timeout seconds have passed since the first chunk of the emitted
\* message was appended.
C2_CeilingPerMessage ==
    [][(Completes /\ ~BufferClosed) => now - hist.firstFrag > total_timeout]_vars

\* ------------------------------------------------- C3
\* C3: no chunks_complete carries a chunk of the answer to a request whose
\* buffered chunks an accepted send_command discarded since the last completion.
C3_OnlyNewRequest ==
    [][Completes => Reqs(received_chunks) \cap hist.superseded = {}]_vars

\* ------------------------------------------------- C4
\* C4: every appended chunk is in exactly one place: still buffered, carried by
\* one chunks_complete, or discarded by a send_command reset; none is emitted
\* twice and none vanishes.
C4_FlushAtomic ==
    /\ hist.twice = {}
    /\ Cardinality(Ids(received_chunks)) = Len(received_chunks)
    /\ Ids(received_chunks) \cup hist.emitted \cup hist.discarded = 1..nfrag
    /\ Ids(received_chunks) \cap hist.emitted = {}
    /\ Ids(received_chunks) \cap hist.discarded = {}
    /\ hist.emitted \cap hist.discarded = {}

\* One chunk was emitted and the next one to arrive sits alone in the new buffer.
C4_Witness ==
    /\ hist.emitted # {}
    /\ lastComplete # <<>>
    /\ Len(received_chunks) = 1
    /\ received_chunks[1].id \notin Ids(lastComplete[1])

\* ------------------------------------------------- C5
\* The supervisor leaves the teardown of a lost session.
LeavesTeardown == PcAt({"mon_disconnect"}) /\ ~PcAt({"mon_disconnect"})'

C6_SupervisorAlive == SupervisorTasks # {}

\* ------------------------------------------------- C7
ErrorReported ==
    lastStatus.msg \in {"Scan error", "Connection error", "Connection failed"}

\* C7: whenever a scan error or a connect error (connect or subscribe raising,
\* or connect returning without being connected) has been reported, a discovery
\* scan is started again later, however many errors came before.
C7_ErrorsRetried == ErrorReported ~> PcAt({"scan_discover"})

\* A scan runs again after a failed scan and a failed connect.
C7_Witness ==
    /\ PcAt({"scan_discover"})
    /\ client = "down"
    /\ ~is_connected
    /\ is_scanning

\* ------------------------------------------------- C8
\* C8: a send_command that finds is_connected False emits the not-connected
\* status and returns False in the same step, starts no write (no coroutine is
\* left waiting and no request reaches the device) and leaves received_chunks
\* and chunks_in_progress as they were.
C8_RejectedWhenNotConnected ==
    [][(SendCommand /\ ~is_connected) =>
          /\ lastStatus' = [connected |-> FALSE,
                            msg |-> "Cannot send command: Not connected",
                            ret |-> "False"]
          /\ UNCHANGED <<received_chunks, chunks_in_progress, tasks, nsent, devCur>>]_vars

\* A send was rejected while chunks of the lost session were still buffered.
C8_Witness ==
    /\ lastStatus.msg = "Cannot send command: Not connected"
    /\ ~is_connected
    /\ received_chunks # <<>>
    /\ chunks_in_progress
    /\ ~PcAt({"send_write"})

\* ------------------------------------------------- C9
\* A send_command passes the guard and reaches the await of the write.
StartsWrite == nsent' = nsent + 1

\* C9 as stated: when the write starts the buffer is empty and the in-flight
\* flag is cleared.
C9_ResetClearsFlag ==
    [][StartsWrite => (received_chunks' = <<>> /\ ~chunks_in_progress')]_vars

\* C9 as amended: when the write starts the buffer is empty and the in-flight
\* flag is set.
C9_ResetSetsFlag ==
    [][StartsWrite => (received_chunks' = <<>> /\ chunks_in_progress')]_vars

\* A write is pending right after a reset that discarded buffered chunks.
C9_Witness ==
    /\ PcAt({"send_write"})
    /\ hist.discarded # {}
    /\ received_chunks = <<>>
    /\ chunks_in_progress

\* ------------------------------------------------- C10
\* C10: no chunks_complete carries an empty list, and a chunks_complete emitted
\* since the last accepted send_command was preceded by a chunk appended since
\* that send_command.
C10_NoEmptyCompletion ==
    /\ lastComplete # <<>> => lastComplete[1] # <<>>
    /\ hist.emitsSinceSend = 1 => hist.fragsSinceSend = 1

\* Two requests were written, the monitor is running, time has passed beyond
\* the ceiling, no chunk ever arrived and nothing was emitted.
C10_Witness ==
    /\ nsent = 2
    /\ nfrag = 0
    /\ devCur = 2
    /\ now - StartTime > total_timeout
    /\ PcAt({"mon_tick"})
    /\ is_connected /\ client = "up"
    /\ lastComplete = <<>>

\* ------------------------------------------------- C11
\* The chunks of a list are consecutive arrivals, oldest first: ids are given
\* by notification_handler in the order the transport delivers.
InArrivalOrder(chunks) ==
    \A k \in 1..(Len(chunks) - 1) : chunks[k + 1].id = chunks[k].id + 1

\* C11: the buffer holds its chunks in the order they were delivered, and the
\* list carried by a chunks_complete is a run of consecutive deliveries in
\* that same order.
C11_ArrivalOrder ==
    /\ InArrivalOrder(received_chunks)
    /\ lastComplete # <<>> => InArrivalOrder(lastComplete[1])

\* A message of two chunks was emitted, the one that arrived first in front.
C11_Witness ==
    /\ lastComplete # <<>>
    /\ Len(lastComplete[1]) = 2
    /\ lastComplete[1][1].id = 1
    /\ lastComplete[1][2].id = 2
    /\ lastComplete[1][1].text # lastComplete[1][2].text

\* ------------------------------------------------- C12
\* C12: every notification whose payload decodes emits one data_received,
\* appends the decoded chunk at the end of received_chunks and sets
\* chunks_in_progress, whether or not a message is in progress; and every
\* chunk carried by a chunks_complete had its data_received emitted before.
C12_EveryChunkAnnounced ==
    /\ [](/\ hist.dataEvents = nfrag
          /\ Ids(received_chunks) \subseteq hist.announced
          /\ lastComplete # <<>> => Ids(lastComplete[1]) \subseteq hist.announced)
    /\ [][\A text \in Payloads :
              NotificationHandler(text, TRUE) =>
                  /\ hist'.dataEvents = hist.dataEvents + 1
                  /\ hist'.announced = hist.announced \cup {nfrag'}
                  /\ received_chunks' = Append(received_chunks,
                          [id |-> nfrag', req |-> devCur, text |-> text])
                  /\ chunks_in_progress']_vars

\* A chunk arrived right after a completion, with the flag cleared, and was
\* announced, buffered and flagged like the first one.
C12_Witness ==
    /\ lastComplete # <<>>
    /\ Len(lastComplete[1]) = 1
    /\ received_chunks # <<>>
    /\ chunks_in_progress
    /\ hist.dataEvents = 2
    /\ hist.announced = {1, 2}

\* ------------------------------------------------- C13
\* A discovery scan is running or waiting to be repeated.  Until it finds the
\* device, self.client is still the client of the session before.
ScanRuns == PcAt({"scan_discover", "scan_sleep", "scan_err_sleep"})

\* The transport of the last established session was lost and that session
\* has not been torn down: no disconnect() on its client has completed.
LostSessionOpen == hist.open /\ client = "down"

\* C13: while a session whose transport was lost has not been torn down, no
\* discovery scan runs, and so no connect attempt either, which only a scan
\* that found the device starts.
C13_TeardownBeforeScan == LostSessionOpen => ~ScanRuns

\* ------------------------------------------------- C14
Separators == Whitespace \cup {","}

\* The tokens of a text: its maximal runs of characters that are neither
\* white space nor a comma, from left to right.
RECURSIVE TokensOf(_)
TokensOf(s) ==
    LET r == DropWhile(s, Separators)
        ends == {k \in DOMAIN r : r[k] \in Separators}
        k == IF ends = {} THEN Len(r) + 1
             ELSE CHOOSE j \in ends : \A h \in ends : j <= h
    IN  IF r = <<>> THEN <<>>
        ELSE <<SubSeq(r, 1, k - 1)>> \o TokensOf(SubSeq(r, k, Len(r)))

\* The values of the numeric tokens of a message, in the order of the message.
NumericTokens(full_data) ==
    LET numeric == SelectSeq(TokensOf(Unbracketed(full_data)), IsFloat)
    IN  [k \in DOMAIN numeric |-> FloatOf(numeric[k])]

\* C14: the decode pipeline returns the values of exactly the numeric tokens
\* of the message, in their order; a malformed token is skipped and the
\* numeric tokens before and after it are kept.
C14_NumericTokensKept ==
    (call.fn = "decode" /\ call.done) => call.result = NumericTokens(call.arg)

\* "[1.0, oops, 2.0]" was decoded to [1.0, 2.0].
C14_Witness ==
    /\ call.fn = "decode" /\ call.done
    /\ call.arg = ExampleMixed
    /\ call.result = <<[m |-> 1, e |-> 0], [m |-> 2, e |-> 0]>>

\* ------------------------------------------------- C15
\* The texts of data_label that report a message that could not be decoded.
FormatErrorTexts ==
    {"No valid numeric values found in the received data",
     "Received data is not in the expected format"}

\* C15: when on_data_complete handles a non-empty list of chunks that holds
\* no numeric token, it leaves a format-error text in data_label, which is not
\* the text used for an empty list, and no list of data gains a sample.
C15_FormatErrorReported ==
    [][\A chunks \in Messages :
          (OnDataComplete(chunks) /\ chunks # <<>> /\ Decode(Join(chunks)) = <<>>) =>
              /\ viewer'.data_label \in FormatErrorTexts
              /\ viewer'.data_label # "No data received"
              /\ \A k \in DOMAIN viewer'.data :
                     viewer'.data[k] = IF k \in DOMAIN viewer.data
                                       THEN viewer.data[k] ELSE <<>>]_vars

\* ------------------------------------------------- C16
\* C16: the command is the three arguments in their order with one ";" between
\* them and nothing else: cut at the ";" it gives back three fields, the
\* decimal digits of battery_num, measurement_type and the decimal digits of
\* measurement_count; it does not start with "#".
C16_CommandIsThreeFields ==
    (call.fn = "encode" /\ call.done) =>
        LET fields == Split(call.result, ";")
        IN  /\ Len(fields) = 3
            /\ \A f \in {1, 3} :
                   /\ fields[f] # <<>>
                   /\ \A k \in DOMAIN fields[f] : IsDigit(fields[f][k])
                   /\ DigitsValue(fields[f]) = call.arg[f]
                   /\ fields[f][1] = "0" => Len(fields[f]) = 1
            /\ fields[2] = call.arg[2]
            /\ call.result[1] # "#"

\* send_command(2, "Power", 300) built "2;Power;300".
C16_Witness ==
    /\ call.fn = "encode" /\ call.done
    /\ call.arg = <<2, <<"P", "o", "w", "e", "r">>, 300>>
    /\ call.result = <<"2", ";", "P", "o", "w", "e", "r", ";", "3", "0", "0">>

\* ------------------------------------------------- C17
\* C17: when on_data_complete handles a message with the parsed values
\* v0..vn-1, the last n values of the list of the current measurement are
\* v0..vn-1 in that order and the last n times are base, base + 10 ms, ...,
\* base + (n-1) * 10 ms, base being the time of the call; consecutive times of
\* one message differ by the sample interval.
C17_TimestampsSpaced ==
    [][\A chunks \in Messages :
          (OnDataComplete(chunks) /\ Decode(Join(chunks)) # <<>>) =>
              LET values == Decode(Join(chunks))
                  n == Len(values)
                  times == viewer'.data["time"]
                  key == Lower(viewer.current_measurement_type)
                  recorded == viewer'.data[key]
                  t0 == Len(times) - n
                  r0 == Len(recorded) - n
              IN  /\ t0 >= 0 /\ r0 >= 0
                  /\ \A i \in 1..n :
                         /\ recorded[r0 + i] = values[i]
                         /\ times[t0 + i] = now * 1000 + (i - 1) * SampleInterval
                  /\ \A i \in 1..(n - 1) :
                         times[t0 + i + 1] - times[t0 + i] = SampleInterval]_vars

\* A message of two values was recorded at one time and a message of one value
\* at a later time.
C17_Witness ==
    /\ viewer.calls = 2
    /\ "voltage" \in DOMAIN viewer.data
    /\ Len(viewer.data["voltage"]) = 3
    /\ viewer.data["time"] =
           <<StartTime * 1000, StartTime * 1000 + SampleInterval, now * 1000>>
    /\ now > StartTime

\* ------------------------------------------------- C18
\* The events of one connection cycle, in the order the claim gives them,
\* with the return of start_notify at the end.
CycleOrder == <<"scanning", "device_found", "connecting", "connected", "subscribed">>

\* C18: the events of the connection cycle under way, from its last
\* "Scanning" status on, are always the first events of the cycle order, so "Connected" is emitted only after that
\* "Scanning", a device_found and a "Connecting", in this order; and a
\* monitor task exists only when start_notify has returned in this cycle.
C18_CycleOrder ==
    /\ Len(hist.trail) <= Len(CycleOrder)
    /\ hist.trail = SubSeq(CycleOrder, 1, Len(hist.trail))
    /\ lastStatus.msg = "Connected" => Len(hist.trail) >= 4
    /\ PcAt({"mon_tick", "mon_disconnect"}) => hist.trail = CycleOrder

\* A cycle went from the scan to the start of the monitor, and "Connected"
\* is still the last status emitted.
C18_Witness ==
    /\ PcAt({"mon_tick"})
    /\ hist.trail = CycleOrder
    /\ lastStatus = Status(TRUE, "Connected")
    /\ client = "up" /\ is_connected /\ subscribed

\* ------------------------------------------------- C19
\* C19: a step in which a connect attempt fails, connect() raising or
\* returning with the client not connected, leaves the supervisor in the
\* sleep that precedes the next scan, never at the start of a new scan.
C19_DelayAfterConnectFailure ==
    [][\A i \in TaskSlots :
          (ConnectError(i) \/ ConnectNotConnected(i)) =>
              tasks'[i].pc = "conn_err_sleep"]_vars

\* ------------------------------------------------- C20
\* C20: is_scanning and is_connected are never both true, so no send_command
\* passes the guard of line 171 while a scan is running.
C20_OneSessionState == ~(is_scanning /\ is_connected)

\* ------------------------------------------------- C21
\* The statuses send_command and connection_monitor emit with connected = True.
WorkStatuses ==
    {"Sent command", "Error sending command",
     "Data transmission started", "Data transmission complete"}

\* C21: send_command and connection_monitor emit a status with connected =
\* True only while the transport of the session is alive, a monitor task is
\* running its loop and the supervisor is not scanning.
C21_ConnectedStatusOnlyConnected ==
    [][(/\ lastStatus' # lastStatus
        /\ lastStatus'.connected
        /\ lastStatus'.msg \in WorkStatuses) =>
           /\ client' = "up"
           /\ PcAt({"mon_tick"})'
           /\ ~is_scanning']_vars

\* ------------------------------------------------- C22
\* C22: no chunks_complete carries a chunk that was in the buffer when the
\* monitor of an earlier session detected the loss of that session; such
\* chunks are the oldest of the buffer, so none is carried when the first
\* chunk of the emitted list is not one of them.
C22_NoLeakAcrossSessions ==
    [][Completes => ~hist.staleHead]_vars

\* ------------------------------------------------- C23
\* C23: when on_data_complete records the values of a message, the key they
\* are stored under is the measurement type of the last request made before
\* the worker emitted the message, never that of a request made afterwards.
C23_StoredUnderRequestedKind ==
    [][\A chunks \in Messages :
          (OnDataComplete(chunks) /\ Decode(Join(chunks)) # <<>>) =>
              /\ Lower(viewer.queue[1].kind) \in DOMAIN viewer'.data
              /\ viewer.current_measurement_type = viewer.queue[1].kind]_vars

\* ------------------------------------------------- C24
\* C24: a time once recorded stays in data["time"], at its place, and no
\* list of measurements is longer than the list of times.
C24_TimestampsKept ==
    /\ [](\A k \in DOMAIN viewer.data :
              Len(viewer.data[k]) <= Len(viewer.data["time"]))
    /\ [][/\ Len(viewer'.data["time"]) >= Len(viewer.data["time"])
          /\ SubSeq(viewer'.data["time"], 1, Len(viewer.data["time"]))
                 = viewer.data["time"]]_vars

====
